---------------------------- MODULE Spec2Model ----------------------------
(***************************************************************************)
(* Model of the Order Ledger Service of src/server.js: the POST            *)
(* /api/orders handler (createOrder), its arithmetic on IEEE-754 doubles,  *)
(* the bill number format and the date filter of the dashboard queries.    *)
(***************************************************************************)
EXTENDS Integers, Naturals, Sequences, FiniteSets, Bags, TLC

(***************************************************************************)
(* Arbitrary precision naturals.  TLC integers are 32 bits wide and a      *)
(* double carries a 53 bit significand, so a natural is a little-endian    *)
(* sequence of limbs in base 2^15 with no leading (most significant) zero  *)
(* limb; zero is the empty sequence.                                       *)
(***************************************************************************)
Base == 32768

LimbBits == 15

RECURSIVE Pow2(_)
Pow2(k) == IF k = 0 THEN 1 ELSE 2 * Pow2(k - 1)

RECURSIVE Trim(_)
Trim(a) ==
  IF a = <<>> THEN <<>>
  ELSE IF a[Len(a)] = 0 THEN Trim(SubSeq(a, 1, Len(a) - 1))
  ELSE a

RECURSIVE BigFromInt(_)
BigFromInt(n) ==
  IF n = 0 THEN <<>> ELSE <<n % Base>> \o BigFromInt(n \div Base)

RECURSIVE BigToInt(_)
BigToInt(a) ==
  IF a = <<>> THEN 0 ELSE Head(a) + Base * BigToInt(Tail(a))

RECURSIVE BigAddC(_, _, _)
BigAddC(a, b, c) ==
  IF a = <<>> /\ b = <<>> THEN (IF c = 0 THEN <<>> ELSE <<c>>)
  ELSE LET x == IF a = <<>> THEN 0 ELSE Head(a)
           y == IF b = <<>> THEN 0 ELSE Head(b)
           s == x + y + c
       IN <<s % Base>> \o BigAddC(IF a = <<>> THEN <<>> ELSE Tail(a),
                                   IF b = <<>> THEN <<>> ELSE Tail(b),
                                   s \div Base)

BigAdd(a, b) == BigAddC(a, b, 0)

RECURSIVE BigSubB(_, _, _)
BigSubB(a, b, c) ==
  IF a = <<>> THEN <<>>
  ELSE LET y == IF b = <<>> THEN 0 ELSE Head(b)
           d == Head(a) - y - c
       IN <<IF d < 0 THEN d + Base ELSE d>>
            \o BigSubB(Tail(a), IF b = <<>> THEN <<>> ELSE Tail(b),
                       IF d < 0 THEN 1 ELSE 0)

\* a - b for a >= b
BigSub(a, b) == Trim(BigSubB(a, b, 0))

RECURSIVE BigMulSmallC(_, _, _)
BigMulSmallC(a, c, carry) ==
  IF a = <<>> THEN BigFromInt(carry)
  ELSE LET p == Head(a) * c + carry
       IN <<p % Base>> \o BigMulSmallC(Tail(a), c, p \div Base)

\* a * c for 0 <= c <= Base
BigMulSmall(a, c) == IF c = 0 THEN <<>> ELSE BigMulSmallC(a, c, 0)

RECURSIVE BigMul(_, _)
BigMul(a, b) ==
  IF a = <<>> \/ b = <<>> THEN <<>>
  ELSE LET rest == BigMul(a, Tail(b))
       IN BigAdd(BigMulSmall(a, Head(b)),
                 IF rest = <<>> THEN <<>> ELSE <<0>> \o rest)

\* <<quotient limbs (most significant first), remainder>> of a \div c,
\* a given most significant limb first, 0 < c <= Base
RECURSIVE BigDivSmallR(_, _, _)
BigDivSmallR(a, c, r) ==
  IF a = <<>> THEN <<<<>>, r>>
  ELSE LET cur  == r * Base + Head(a)
           rest == BigDivSmallR(Tail(a), c, cur % c)
       IN <<<<cur \div c>> \o rest[1], rest[2]>>

Reverse(s) == [i \in 1..Len(s) |-> s[Len(s) + 1 - i]]

BigDivSmall(a, c) == Trim(Reverse(BigDivSmallR(Reverse(a), c, 0)[1]))

BigModSmall(a, c) == BigDivSmallR(Reverse(a), c, 0)[2]

RECURSIVE BigCmpMS(_, _)
BigCmpMS(a, b) ==
  IF a = <<>> THEN 0
  ELSE IF Head(a) < Head(b) THEN -1
  ELSE IF Head(a) > Head(b) THEN 1
  ELSE BigCmpMS(Tail(a), Tail(b))

\* -1, 0, 1 as a < b, a = b, a > b
BigCmp(a, b) ==
  IF Len(a) < Len(b) THEN -1
  ELSE IF Len(a) > Len(b) THEN 1
  ELSE BigCmpMS(Reverse(a), Reverse(b))

RECURSIVE IntBitLen(_)
IntBitLen(n) == IF n = 0 THEN 0 ELSE 1 + IntBitLen(n \div 2)

BitLen(a) ==
  IF a = <<>> THEN 0 ELSE LimbBits * (Len(a) - 1) + IntBitLen(a[Len(a)])

ShiftLeft(a, s) ==
  IF a = <<>> THEN <<>>
  ELSE BigMulSmall([i \in 1..(s \div LimbBits) |-> 0] \o a,
                   Pow2(s % LimbBits))

ShiftRight(a, s) ==
  IF s \div LimbBits >= Len(a) THEN <<>>
  ELSE BigDivSmall(SubSeq(a, (s \div LimbBits) + 1, Len(a)),
                   Pow2(s % LimbBits))

IsOdd(a) == a # <<>> /\ Head(a) % 2 = 1

(***************************************************************************)
(* JavaScript Numbers: IEEE-754 binary64, here the non-negative finite     *)
(* normal ones and zero.  [m, e] stands for m * 2^e with 2^52 <= m < 2^53; *)
(* zero is [<<>>, 0].                                                      *)
(***************************************************************************)
Precision == 53

Zero == [m |-> <<>>, e |-> 0]

\* the double nearest to N * 2^e, ties to even
RoundNearestEven(N, e) ==
  LET L == BitLen(N) IN
  IF N = <<>> THEN Zero
  ELSE IF L <= Precision
    THEN [m |-> ShiftLeft(N, Precision - L), e |-> e - (Precision - L)]
  ELSE LET s    == L - Precision
           q    == ShiftRight(N, s)
           rem  == BigSub(N, ShiftLeft(q, s))
           half == ShiftLeft(<<1>>, s - 1)
           c    == BigCmp(rem, half)
           up   == c = 1 \/ (c = 0 /\ IsOdd(q))
           q2   == IF up THEN BigAdd(q, <<1>>) ELSE q
       IN IF BitLen(q2) > Precision
            THEN [m |-> ShiftRight(q2, 1), e |-> e + s + 1]
            ELSE [m |-> q2, e |-> e + s]

FromInt(n) == RoundNearestEven(BigFromInt(n), 0)

GuardBits == 70

\* the double a decimal literal with two fraction digits denotes: the one
\* nearest to n / 100 (JSON.parse of the request body, parseFloat)
FromHundredths(n) ==
  LET N == ShiftLeft(BigFromInt(n), GuardBits)
      q == BigDivSmall(N, 100)
      r == BigModSmall(N, 100)
  IN RoundNearestEven(
       BigAdd(ShiftLeft(q, 1), IF r = 0 THEN <<>> ELSE <<1>>),
       0 - (GuardBits + 1))

FMul(x, y) == RoundNearestEven(BigMul(x.m, y.m), x.e + y.e)

FAdd(x, y) ==
  IF x.m = <<>> THEN y
  ELSE IF y.m = <<>> THEN x
  ELSE LET e == IF x.e < y.e THEN x.e ELSE y.e
       IN RoundNearestEven(
            BigAdd(ShiftLeft(x.m, x.e - e), ShiftLeft(y.m, y.e - e)), e)

\* x - y for x >= y
FSub(x, y) ==
  IF y.m = <<>> THEN x
  ELSE LET e == IF x.e < y.e THEN x.e ELSE y.e
       IN RoundNearestEven(
            BigSub(ShiftLeft(x.m, x.e - e), ShiftLeft(y.m, y.e - e)), e)

\* Number.prototype.toFixed(2): the integer n for which n / 100 - x is as
\* close to zero as possible, the larger n of two; the string is n with a
\* point before its last two digits
toFixed2(x) ==
  LET c == BigMulSmall(x.m, 100) IN
  IF x.e >= 0 THEN BigToInt(ShiftLeft(c, x.e))
  ELSE BigToInt(ShiftRight(BigAdd(c, ShiftLeft(<<1>>, (0 - x.e) - 1)),
                           0 - x.e))

\* parseFloat(x.toFixed(2))
round2(x) == FromHundredths(toFixed2(x))

Tenth == FromHundredths(10)

Eighteen == FromHundredths(18)

(***************************************************************************)
(* createOrder, the arithmetic of lines 49-52.  An item of the request     *)
(* body is [item_name, price, quantity]: price is the decimal literal of   *)
(* the JSON body in whole hundredths, quantity a non-negative integer.     *)
(***************************************************************************)
priceOf(item) == FromHundredths(item.price)

lineTotal(item) == FMul(priceOf(item), FromInt(item.quantity))

RECURSIVE reduce(_, _)
reduce(items, sum) ==
  IF items = <<>> THEN sum
  ELSE reduce(Tail(items), FAdd(sum, lineTotal(Head(items))))

subtotalOf(items) == reduce(items, Zero)

discountOf(subtotal) == round2(FMul(subtotal, Tenth))

gstOf(subtotal, discount) == round2(FMul(FSub(subtotal, discount), Eighteen))

total_amountOf(subtotal, discount, gst) ==
  round2(FAdd(FSub(subtotal, discount), gst))

calculate(items) ==
  LET subtotal     == subtotalOf(items)
      discount     == discountOf(subtotal)
      gst          == gstOf(subtotal, discount)
      total_amount == total_amountOf(subtotal, discount, gst)
  IN [subtotal |-> subtotal, discount |-> discount, gst |-> gst,
      total_amount |-> total_amount]

(***************************************************************************)
(* Strings are sequences of one-character strings.                         *)
(***************************************************************************)
DigitChars == <<"0", "1", "2", "3", "4", "5", "6", "7", "8", "9">>

\* String(n) for a non-negative integer n
RECURSIVE String(_)
String(n) ==
  IF n < 10 THEN <<DigitChars[n + 1]>>
  ELSE String(n \div 10) \o <<DigitChars[(n % 10) + 1]>>

\* padStart as a bug would have it: the last targetLength characters are
\* kept, a longer string is truncated
padStartTruncating(str, targetLength, padString) ==
  IF Len(str) >= targetLength
    THEN SubSeq(str, Len(str) - targetLength + 1, Len(str))
  ELSE [i \in 1..(targetLength - Len(str)) |-> padString] \o str

\* String.prototype.padStart(targetLength, padString), one-character pad
padStart(str, targetLength, padString) ==
  IF Len(str) >= targetLength THEN str
  ELSE [i \in 1..(targetLength - Len(str)) |-> padString] \o str

\* line 56: `BILL-${String(bill_no).padStart(6, '0')}`
billNumberOf(bill_no) ==
  <<"B", "I", "L", "L", "-">> \o padStart(String(bill_no), 6, "0")

(***************************************************************************)
(* Bounds of the model.                                                    *)
(***************************************************************************)
NumReqs == 2

Reqs == 1..NumReqs

Tea == [item_name |-> "tea", price |-> 15, quantity |-> 1]

Cake == [item_name |-> "cake", price |-> 35, quantity |-> 3]

Catalog == {Tea, Cake}

\* the items sequences the requests of the createOrder specification carry
ItemLists == {<<>>, <<Tea>>, <<Tea, Cake>>}

\* lines 49-52 and 88-90 evaluated once for each input of the
\* createOrder specification
amountsOf == [items \in ItemLists |-> calculate(items)]

rowValuesOf ==
  [item \in Catalog |-> [price |-> priceOf(item), total |-> lineTotal(item)]]

VARIABLES
  pc,               \* per request: the store call the handler awaits
  body,             \* per request: req.body.items
  pool,             \* requests holding a checked-out client
  inTxn,            \* per request: BEGIN done on its client, no COMMIT/ROLLBACK yet
  amounts,          \* per request: subtotal, discount, gst, total_amount
  bill_number,      \* per request: local bill_number
  orderId,          \* per request: local orderId
  idx,              \* per request: position of the for loop over items
  log,              \* per request: the store calls completed, <<call, ok>>
  responses,        \* per request: the responses sent
  released,         \* per request: number of client.release() calls
  uncaught,         \* per request: an error left the handler
  bill_number_seq,  \* store: sequence bill_number_seq
  orders_id_seq,    \* store: identity of orders.id
  orders,           \* store: table orders
  order_items,      \* store: table order_items
  phase,            \* pure functions: "input" or "computed"
  arg,              \* pure functions: the input
  result,           \* pure functions: the output
  clock,            \* dashboard: NOW()
  dash              \* dashboard: the last response

vars == <<pc, body, pool, inTxn, amounts, bill_number, orderId, idx, log,
          responses, released, uncaught, bill_number_seq, orders_id_seq, orders, order_items,
          phase, arg, result, clock, dash>>

handlerVars == <<pc, body, pool, inTxn, amounts, bill_number, orderId, idx,
                 log, responses, released, uncaught, bill_number_seq, orders_id_seq>>

pureVars == <<phase, arg, result>>

dashVars == <<clock, dash>>

NoAmounts == [subtotal |-> Zero, discount |-> Zero, gst |-> Zero,
              total_amount |-> Zero]

HandlerInit ==
  /\ pc = [r \in Reqs |-> "idle"]
  /\ body = [r \in Reqs |-> <<>>]
  /\ pool = {}
  /\ inTxn = [r \in Reqs |-> FALSE]
  /\ amounts = [r \in Reqs |-> NoAmounts]
  /\ bill_number = [r \in Reqs |-> <<>>]
  /\ orderId = [r \in Reqs |-> 0]
  /\ idx = [r \in Reqs |-> 0]
  /\ log = [r \in Reqs |-> <<>>]
  /\ responses = [r \in Reqs |-> <<>>]
  /\ released = [r \in Reqs |-> 0]
  /\ uncaught = [r \in Reqs |-> FALSE]
  /\ bill_number_seq = 0
  /\ orders_id_seq = 0

StoreInit ==
  /\ orders = {}
  /\ order_items = EmptyBag

PureIdle ==
  /\ phase = "idle"
  /\ arg = <<>>
  /\ result = <<>>

DashIdle ==
  /\ clock = 0
  /\ dash = [endpoint |-> "none"]

Init == HandlerInit /\ StoreInit /\ PureIdle /\ DashIdle

(***************************************************************************)
(* createOrder, POST /api/orders (lines 34-114).  One action per store     *)
(* call the handler awaits: the action is the outcome of the call, which   *)
(* succeeds or fails, and the handler's code up to its next await.         *)
(***************************************************************************)
Logged(r, ev) == log' = [log EXCEPT ![r] = Append(@, ev)]

\* lines 34-43: the request arrives, the handler asks the pool for a client
Request(r) ==
  /\ pc[r] = "idle"
  /\ \E items \in ItemLists : body' = [body EXCEPT ![r] = items]
  /\ pc' = [pc EXCEPT ![r] = "connect"]
  /\ UNCHANGED <<pool, inTxn, amounts, bill_number, orderId, idx, log,
                 responses, released, uncaught, bill_number_seq,
                 orders_id_seq, orders, order_items>>
  /\ UNCHANGED <<pureVars, dashVars>>

\* line 43: await db.connect(), outside the try block
Connect(r) ==
  /\ pc[r] = "connect"
  /\ \/ /\ pool' = pool \cup {r}
        /\ pc' = [pc EXCEPT ![r] = "begin"]
        /\ Logged(r, <<"connect", TRUE>>)
        /\ UNCHANGED uncaught
     \/ /\ pc' = [pc EXCEPT ![r] = "done"]
        /\ uncaught' = [uncaught EXCEPT ![r] = TRUE]
        /\ Logged(r, <<"connect", FALSE>>)
        /\ UNCHANGED pool
  /\ UNCHANGED <<body, inTxn, amounts, bill_number, orderId, idx,
                 responses, released, bill_number_seq, orders_id_seq, orders, order_items>>
  /\ UNCHANGED <<pureVars, dashVars>>

\* Begin as a bug would have it: reduce without its initial value throws
\* on an empty items sequence and the handler goes to its catch block
BeginReduceWithoutInitial(r) ==
  /\ pc[r] = "begin"
  /\ \/ /\ inTxn' = [inTxn EXCEPT ![r] = TRUE]
        /\ amounts' = [amounts EXCEPT ![r] = amountsOf[body[r]]]
        /\ pc' = [pc EXCEPT ![r] =
                    IF body[r] = <<>> THEN "rollback" ELSE "nextval"]
        /\ Logged(r, <<"BEGIN", TRUE>>)
     \/ /\ pc' = [pc EXCEPT ![r] = "rollback"]
        /\ Logged(r, <<"BEGIN", FALSE>>)
        /\ UNCHANGED <<inTxn, amounts>>
  /\ UNCHANGED <<body, pool, bill_number, orderId, idx, responses, released,
                 uncaught, bill_number_seq, orders_id_seq, orders,
                 order_items>>
  /\ UNCHANGED <<pureVars, dashVars>>

\* lines 46-55: await client.query('BEGIN'), then the amounts, then the
\* handler asks for nextval
Begin(r) ==
  /\ pc[r] = "begin"
  /\ \/ /\ inTxn' = [inTxn EXCEPT ![r] = TRUE]
        /\ amounts' = [amounts EXCEPT ![r] = amountsOf[body[r]]]
        /\ pc' = [pc EXCEPT ![r] = "nextval"]
        /\ Logged(r, <<"BEGIN", TRUE>>)
     \/ /\ pc' = [pc EXCEPT ![r] = "rollback"]
        /\ Logged(r, <<"BEGIN", FALSE>>)
        /\ UNCHANGED <<inTxn, amounts>>
  /\ UNCHANGED <<body, pool, bill_number, orderId, idx, responses, released,
                 uncaught,
                 bill_number_seq, orders_id_seq, orders, order_items>>
  /\ UNCHANGED <<pureVars, dashVars>>

\* Nextval as a bug would have it: the handler reads the sequence and adds
\* one in-process, the store's sequence is not advanced
NextvalPredicted(r) ==
  /\ pc[r] = "nextval"
  /\ \/ /\ bill_number' =
             [bill_number EXCEPT ![r] = billNumberOf(bill_number_seq + 1)]
        /\ pc' = [pc EXCEPT ![r] = "insertOrder"]
        /\ Logged(r, <<"nextval", TRUE>>)
        /\ UNCHANGED bill_number_seq
     \/ /\ pc' = [pc EXCEPT ![r] = "rollback"]
        /\ Logged(r, <<"nextval", FALSE>>)
        /\ UNCHANGED <<bill_number_seq, bill_number>>
  /\ UNCHANGED <<body, pool, inTxn, amounts, orderId, idx, responses,
                 released, uncaught, orders_id_seq, orders, order_items>>
  /\ UNCHANGED <<pureVars, dashVars>>

\* lines 55-59: await db.query(nextval('bill_number_seq')), the store
\* increments the sequence and returns the new value in one step
Nextval(r) ==
  /\ pc[r] = "nextval"
  /\ \/ /\ bill_number_seq' = bill_number_seq + 1
        /\ bill_number' =
             [bill_number EXCEPT ![r] = billNumberOf(bill_number_seq')]
        /\ pc' = [pc EXCEPT ![r] = "insertOrder"]
        /\ Logged(r, <<"nextval", TRUE>>)
     \/ /\ pc' = [pc EXCEPT ![r] = "rollback"]
        /\ Logged(r, <<"nextval", FALSE>>)
        /\ UNCHANGED <<bill_number_seq, bill_number>>
  /\ UNCHANGED <<body, pool, inTxn, amounts, orderId, idx, responses,
                 released, uncaught,
                 orders_id_seq, orders, order_items>>
  /\ UNCHANGED <<pureVars, dashVars>>

\* the row of lines 60-74; customer_name identifies the request, the
\* columns table_number, order_type, payment_status pass through
OrderRow(r, id) ==
  [id |-> id, customer_name |-> r,
   subtotal |-> amounts[r].subtotal, discount |-> amounts[r].discount,
   gst |-> amounts[r].gst, total_amount |-> amounts[r].total_amount,
   bill_number |-> bill_number[r]]

\* lines 59-77: await db.query(INSERT INTO orders ... RETURNING id).  The
\* statement runs on db, the pool, not on the client that ran BEGIN: it is
\* its own transaction and is durable as soon as it returns.
InsertOrder(r) ==
  /\ pc[r] = "insertOrder"
  /\ \/ /\ orders_id_seq' = orders_id_seq + 1
        /\ orders' = orders \cup {OrderRow(r, orders_id_seq')}
        /\ orderId' = [orderId EXCEPT ![r] = orders_id_seq']
        /\ idx' = [idx EXCEPT ![r] = 1]
        /\ pc' = [pc EXCEPT ![r] =
                    IF body[r] = <<>> THEN "commit" ELSE "insertItem"]
        /\ Logged(r, <<"insertOrder", TRUE>>)
     \/ /\ pc' = [pc EXCEPT ![r] = "rollback"]
        /\ Logged(r, <<"insertOrder", FALSE>>)
        /\ UNCHANGED <<orders_id_seq, orders, orderId, idx>>
  /\ UNCHANGED <<body, pool, inTxn, amounts, bill_number, responses,
                 released, uncaught,
                 bill_number_seq, order_items>>
  /\ UNCHANGED <<pureVars, dashVars>>

\* ItemRow as a bug would have it: total is the unit price
ItemRowUnitPrice(order_id, item) ==
  [order_id |-> order_id, item_name |-> item.item_name,
   price |-> rowValuesOf[item].price, quantity |-> item.quantity,
   total |-> rowValuesOf[item].price]

\* the row of lines 85-91
ItemRow(order_id, item) ==
  [order_id |-> order_id, item_name |-> item.item_name,
   price |-> rowValuesOf[item].price, quantity |-> item.quantity,
   total |-> rowValuesOf[item].total]

\* lines 80-93: await db.query(INSERT INTO order_items ...) for the item
\* at the loop position, again on the pool
InsertItem(r) ==
  /\ pc[r] = "insertItem"
  /\ \/ /\ order_items' =
             order_items (+) SetToBag({ItemRow(orderId[r], body[r][idx[r]])})
        /\ idx' = [idx EXCEPT ![r] = @ + 1]
        /\ pc' = [pc EXCEPT ![r] =
                    IF idx[r] = Len(body[r]) THEN "commit" ELSE "insertItem"]
        /\ Logged(r, <<"insertItem", TRUE>>)
     \/ /\ pc' = [pc EXCEPT ![r] = "rollback"]
        /\ Logged(r, <<"insertItem", FALSE>>)
        /\ UNCHANGED <<order_items, idx>>
  /\ UNCHANGED <<body, pool, inTxn, amounts, bill_number, orderId,
                 responses, released, uncaught,
                 bill_number_seq, orders_id_seq, orders>>
  /\ UNCHANGED <<pureVars, dashVars>>

\* lines 98-106
SuccessResponse(r) ==
  [status |-> 200, success |-> TRUE, orderId |-> orderId[r],
   billNumber |-> bill_number[r], subtotal |-> amounts[r].subtotal,
   discount |-> amounts[r].discount, gst |-> amounts[r].gst,
   totalAmount |-> amounts[r].total_amount]

\* line 110
FailureResponse ==
  [status |-> 500, success |-> FALSE, message |-> "Error saving order"]

\* lines 95-106, 111-113: await client.query('COMMIT'); the client's
\* transaction holds no statement; then the response and, in finally,
\* client.release()
Commit(r) ==
  /\ pc[r] = "commit"
  /\ \/ /\ inTxn' = [inTxn EXCEPT ![r] = FALSE]
        /\ Logged(r, <<"COMMIT", TRUE>>)
        /\ responses' = [responses EXCEPT ![r] = Append(@, SuccessResponse(r))]
        /\ released' = [released EXCEPT ![r] = @ + 1]
        /\ pool' = pool \ {r}
        /\ pc' = [pc EXCEPT ![r] = "done"]
     \/ /\ pc' = [pc EXCEPT ![r] = "rollback"]
        /\ Logged(r, <<"COMMIT", FALSE>>)
        /\ UNCHANGED <<inTxn, pool, responses, released>>
  /\ UNCHANGED <<body, amounts, bill_number, orderId, idx, uncaught,
                 bill_number_seq, orders_id_seq, orders, order_items>>
  /\ UNCHANGED <<pureVars, dashVars>>

\* Rollback as a bug would have it: client.release() at the end of the
\* catch block instead of finally, skipped when ROLLBACK throws
RollbackReleaseInCatch(r) ==
  /\ pc[r] = "rollback"
  /\ \/ /\ inTxn' = [inTxn EXCEPT ![r] = FALSE]
        /\ Logged(r, <<"ROLLBACK", TRUE>>)
        /\ responses' = [responses EXCEPT ![r] = Append(@, FailureResponse)]
        /\ released' = [released EXCEPT ![r] = @ + 1]
        /\ pool' = pool \ {r}
        /\ UNCHANGED uncaught
     \/ /\ uncaught' = [uncaught EXCEPT ![r] = TRUE]
        /\ Logged(r, <<"ROLLBACK", FALSE>>)
        /\ UNCHANGED <<inTxn, responses, released, pool>>
  /\ pc' = [pc EXCEPT ![r] = "done"]
  /\ UNCHANGED <<body, amounts, bill_number, orderId, idx,
                 bill_number_seq, orders_id_seq, orders, order_items>>
  /\ UNCHANGED <<pureVars, dashVars>>

\* lines 107-113: the catch block awaits client.query('ROLLBACK'), which
\* undoes the statements of the client's transaction: none.  When it
\* fails the error leaves the catch block before line 110; finally
\* releases the client either way.
Rollback(r) ==
  /\ pc[r] = "rollback"
  /\ \/ /\ inTxn' = [inTxn EXCEPT ![r] = FALSE]
        /\ Logged(r, <<"ROLLBACK", TRUE>>)
        /\ responses' = [responses EXCEPT ![r] = Append(@, FailureResponse)]
        /\ UNCHANGED uncaught
     \/ /\ uncaught' = [uncaught EXCEPT ![r] = TRUE]
        /\ Logged(r, <<"ROLLBACK", FALSE>>)
        /\ UNCHANGED <<inTxn, responses>>
  /\ released' = [released EXCEPT ![r] = @ + 1]
  /\ pool' = pool \ {r}
  /\ pc' = [pc EXCEPT ![r] = "done"]
  /\ UNCHANGED <<body, amounts, bill_number, orderId, idx,
                 bill_number_seq, orders_id_seq, orders, order_items>>
  /\ UNCHANGED <<pureVars, dashVars>>

Next ==
  \/ \E r \in Reqs : Request(r)
  \/ \E r \in Reqs : Connect(r)
  \/ \E r \in Reqs : Begin(r)
  \/ \E r \in Reqs : Nextval(r)
  \/ \E r \in Reqs : InsertOrder(r)
  \/ \E r \in Reqs : InsertItem(r)
  \/ \E r \in Reqs : Commit(r)
  \/ \E r \in Reqs : Rollback(r)

Spec == Init /\ [][Next]_vars

(***************************************************************************)
(* Properties of createOrder.                                              *)
(***************************************************************************)
Range(f) == {f[i] : i \in DOMAIN f}

Called(r, call, ok) == <<call, ok>> \in Range(log[r])

AnyFailed(r) == \E i \in DOMAIN log[r] : ~log[r][i][2]

Finished(r) == pc[r] = "done"

OrdersOf(r) == {o \in orders : o.customer_name = r}

\* the rows of order_items that reference the order with this id
ItemsOfOrder(id) ==
  LET rows == {row \in BagToSet(order_items) : row.order_id = id}
  IN [row \in rows |-> order_items[row]]

RECURSIVE CountItems(_)
CountItems(ids) ==
  IF ids = {} THEN 0
  ELSE LET id == CHOOSE x \in ids : TRUE
       IN BagCardinality(ItemsOfOrder(id)) + CountItems(ids \ {id})

ItemCountOf(r) == CountItems({o.id : o \in OrdersOf(r)})

SecondInsertFailed(r) ==
  /\ Len(body[r]) = 2
  /\ \E i \in DOMAIN log[r] :
       /\ i > 1
       /\ log[r][i - 1] = <<"insertItem", TRUE>>
       /\ log[r][i] = <<"insertItem", FALSE>>

\* C1: createOrder is atomic.  When the insert of the second of two items
\* fails, the finished request leaves no Order row and no OrderItem row;
\* in every final state an Order and all of its OrderItems are persisted
\* together or not at all.
C1_Atomic ==
  \A r \in Reqs :
    Finished(r) =>
      /\ SecondInsertFailed(r) => OrdersOf(r) = {} /\ ItemCountOf(r) = 0
      /\ \/ OrdersOf(r) = {} /\ ItemCountOf(r) = 0
         \/ Cardinality(OrdersOf(r)) = 1 /\ ItemCountOf(r) = Len(body[r])

\* C2: in any interleaving of concurrent createOrder requests no two
\* persisted Orders have the same bill_number, and no two requests hold
\* the same bill number: each comes from one increment of the sequence.
C2_UniqueBillNumbers ==
  /\ \A o1, o2 \in orders : o1 # o2 => o1.bill_number # o2.bill_number
  /\ \A r1, r2 \in Reqs :
       r1 # r2 /\ bill_number[r1] # <<>> /\ bill_number[r2] # <<>>
         => bill_number[r1] # bill_number[r2]

\* two requests in flight at once, each with its Order row persisted
C2_Witness ==
  /\ pc[1] = "commit" /\ pc[2] = "commit"
  /\ OrdersOf(1) # {} /\ OrdersOf(2) # {}

\* C3: every client checked out by createOrder is released exactly once on
\* every exit path (COMMIT, ROLLBACK, a failing BEGIN, COMMIT or ROLLBACK);
\* when all requests have finished no client is checked out.
C3_ReleasedOnce ==
  /\ \A r \in Reqs :
       /\ released[r] <= 1
       /\ r \in pool => released[r] = 0 /\ Called(r, "connect", TRUE)
       /\ Finished(r) =>
            /\ r \notin pool
            /\ released[r] = IF Called(r, "connect", TRUE) THEN 1 ELSE 0
  /\ (\A r \in Reqs : pc[r] \in {"idle", "done"}) => pool = {}

\* a request whose ROLLBACK itself failed has finished and released
C3_Witness ==
  \E r \in Reqs :
    Finished(r) /\ Called(r, "ROLLBACK", FALSE) /\ released[r] = 1

\* C4: every createOrder request in which a store operation fails gets
\* exactly one response, status 500 with {success: false, message}, and
\* no failure leaves the handler uncaught.
C4_FailureAnswered ==
  \A r \in Reqs :
    Finished(r) /\ AnyFailed(r) =>
      responses[r] = <<FailureResponse>> /\ ~uncaught[r]

\* C6: createOrder with an empty items sequence is not rejected: when no
\* store operation fails it answers success with subtotal, discount, gst
\* and total 0, takes one bill sequence value and persists exactly one
\* Order row with zero OrderItem rows.
C6_EmptyOrder ==
  \A r \in Reqs :
    Finished(r) /\ body[r] = <<>> /\ ~AnyFailed(r) =>
      /\ Len(responses[r]) = 1
      /\ responses[r][1].success
      /\ responses[r][1].subtotal = Zero
      /\ responses[r][1].discount = Zero
      /\ responses[r][1].gst = Zero
      /\ responses[r][1].totalAmount = Zero
      /\ Cardinality({i \in DOMAIN log[r] : log[r][i][1] = "nextval"}) = 1
      /\ bill_number[r] # <<>>
      /\ Cardinality(OrdersOf(r)) = 1
      /\ \A o \in OrdersOf(r) :
           /\ o.id = responses[r][1].orderId
           /\ o.subtotal = Zero /\ o.discount = Zero
           /\ o.gst = Zero /\ o.total_amount = Zero
      /\ ItemCountOf(r) = 0

C6_Witness ==
  \E r \in Reqs :
    /\ Finished(r) /\ body[r] = <<>> /\ ~AnyFailed(r)
    /\ Cardinality(OrdersOf(r)) = 1

\* the OrderItem rows the request body asks for, for this order id
ExpectedRowValues ==
  [item \in Catalog |->
     [price |-> FromHundredths(item.price),
      total |-> FMul(FromHundredths(item.price), FromInt(item.quantity))]]

RECURSIVE ExpectedItems(_, _)
ExpectedItems(id, items) ==
  IF items = <<>> THEN EmptyBag
  ELSE SetToBag({[order_id |-> id, item_name |-> Head(items).item_name,
                  price |-> ExpectedRowValues[Head(items)].price,
                  quantity |-> Head(items).quantity,
                  total |-> ExpectedRowValues[Head(items)].total]})
       (+) ExpectedItems(id, Tail(items))

\* C10: a success response is sent only after COMMIT has completed, and
\* then the store holds exactly one Order row with the orderId and
\* billNumber of the response and exactly one OrderItem row per input item,
\* each referencing that orderId with total = price * quantity; a request
\* never sends both a success and a failure response.
C10_SuccessIsDurable ==
  \A r \in Reqs :
    /\ Len(responses[r]) <= 1
    /\ \A i \in DOMAIN responses[r] :
         responses[r][i].success =>
           /\ Called(r, "COMMIT", TRUE)
           /\ ~inTxn[r]
           /\ Cardinality({o \in orders : o.id = responses[r][i].orderId}) = 1
           /\ \A o \in orders :
                o.id = responses[r][i].orderId =>
                  /\ o.bill_number = responses[r][i].billNumber
                  /\ o.customer_name = r
           /\ ItemsOfOrder(responses[r][i].orderId)
                = ExpectedItems(responses[r][i].orderId, body[r])

\* a success response for an order of two items
C10_Witness ==
  \E r \in Reqs :
    /\ Len(responses[r]) = 1
    /\ responses[r][1].success
    /\ Len(body[r]) = 2

(***************************************************************************)
(* The arithmetic of createOrder as a function of the request body.        *)
(***************************************************************************)
MaxItems == 2

MaxQuantity == 2

\* prices of the inputs, in hundredths
Prices == {0, 10, 15, 10000}

CalcItems ==
  {[item_name |-> "item", price |-> p, quantity |-> q] :
     p \in Prices, q \in 0..MaxQuantity}

RECURSIVE SeqsUpTo(_, _)
SeqsUpTo(S, n) ==
  IF n = 0 THEN {<<>>}
  ELSE LET shorter == SeqsUpTo(S, n - 1)
       IN shorter \cup {Append(sq, x) : sq \in shorter, x \in S}

CalcInputs == SeqsUpTo(CalcItems, MaxItems)

InitCalc ==
  /\ HandlerInit /\ StoreInit /\ DashIdle
  /\ phase = "input"
  /\ arg \in CalcInputs
  /\ result = <<>>

\* lines 49-52 on the items of arg
Calculate ==
  /\ phase = "input"
  /\ result' = calculate(arg)
  /\ phase' = "computed"
  /\ UNCHANGED <<arg, handlerVars, orders, order_items, dashVars>>

NextCalc == Calculate

SpecCalc == InitCalc /\ [][NextCalc]_vars

RECURSIVE ExactSubtotal(_)
ExactSubtotal(items) ==
  IF items = <<>> THEN 0
  ELSE Head(items).price * Head(items).quantity + ExactSubtotal(Tail(items))

\* n / d rounded to an integer, halves up
HalfUp(n, d) == (2 * n + d) \div (2 * d)

\* n / d rounded to an integer, halves to even
HalfEven(n, d) ==
  LET q == n \div d
  IN IF 2 * (n % d) > d \/ (2 * (n % d) = d /\ q % 2 = 1) THEN q + 1 ELSE q

Rounded(halfUp, n, d) == IF halfUp THEN HalfUp(n, d) ELSE HalfEven(n, d)

\* the amounts of a subtotal of k hundredths in exact arithmetic
ExactAmounts(k, halfUp) ==
  LET d == Rounded(halfUp, k * 10, 100)
      g == Rounded(halfUp, (k - d) * 18, 100)
  IN [subtotal |-> FromHundredths(k), discount |-> FromHundredths(d),
      gst |-> FromHundredths(g), total_amount |-> FromHundredths(k - d + g)]

\* C5: for items with non-negative prices in whole hundredths and
\* non-negative integer quantities, subtotal = sum of price * quantity,
\* discount = subtotal * 0.10 rounded to 2 decimals, gst = (subtotal -
\* discount) * 0.18 rounded to 2 decimals and total_amount = subtotal -
\* discount + gst rounded to 2 decimals (rounding halves up throughout, or
\* halves to even throughout); subtotal 100 gives 10.00, 16.20, 106.20.
C5_Amounts ==
  phase = "computed" =>
    LET k == ExactSubtotal(arg)
    IN /\ result \in {ExactAmounts(k, TRUE), ExactAmounts(k, FALSE)}
       /\ k = 10000 =>
            /\ result.discount = FromHundredths(1000)
            /\ result.gst = FromHundredths(1620)
            /\ result.total_amount = FromHundredths(10620)

(***************************************************************************)
(* The bill number as a function of the sequence value.                    *)
(***************************************************************************)
MaxSeqValue == 60

SeqValues == (1..MaxSeqValue) \cup {999999, 1000000, 1234567}

InitBill ==
  /\ HandlerInit /\ StoreInit /\ DashIdle
  /\ phase = "input"
  /\ arg \in SeqValues
  /\ result = <<>>

\* line 56 on the sequence value arg
FormatBill ==
  /\ phase = "input"
  /\ result' = billNumberOf(arg)
  /\ phase' = "computed"
  /\ UNCHANGED <<arg, handlerVars, orders, order_items, dashVars>>

NextBill == FormatBill

SpecBill == InitBill /\ [][NextBill]_vars

RECURSIVE NumDigits(_)
NumDigits(n) == IF n < 10 THEN 1 ELSE 1 + NumDigits(n \div 10)

DigitOf(c) == CHOOSE d \in 0..9 : DigitChars[d + 1] = c

RECURSIVE DecimalValue(_)
DecimalValue(str) ==
  IF str = <<>> THEN 0
  ELSE 10 * DecimalValue(SubSeq(str, 1, Len(str) - 1)) + DigitOf(str[Len(str)])

\* C7: the bill number of a positive sequence value n is 'BILL-' followed
\* by n in decimal, zero-padded on the left to at least 6 digits and never
\* truncated; 7 gives BILL-000007, 1234567 gives BILL-1234567; distinct
\* sequence values give distinct bill numbers.
C7_BillFormat ==
  phase = "computed" =>
    LET digits == SubSeq(result, 6, Len(result))
    IN /\ SubSeq(result, 1, 5) = <<"B", "I", "L", "L", "-">>
       /\ Len(digits) = IF NumDigits(arg) > 6 THEN NumDigits(arg) ELSE 6
       /\ \A i \in DOMAIN digits : digits[i] \in Range(DigitChars)
       /\ DecimalValue(digits) = arg
       /\ arg = 7 =>
            result = <<"B", "I", "L", "L", "-", "0", "0", "0", "0", "0", "7">>
       /\ arg = 1234567 =>
            result = <<"B", "I", "L", "L", "-", "1", "2", "3", "4", "5", "6", "7">>
       /\ \A n \in SeqValues : n # arg => billNumberOf(n) # result

C7_Witness == phase = "computed" /\ arg = 1234567

(***************************************************************************)
(* The dashboard queries with a date range (lines 115-179).  A timestamp   *)
(* is a number of instants since day 0, TicksPerDay instants to the day,   *)
(* the first of them midnight; a date is a day number.                     *)
(***************************************************************************)
TicksPerDay == 2

NumDays == 2

MaxOrders == 2

LastInstant == NumDays * TicksPerDay - 1

DayOf(timestamp) == timestamp \div TicksPerDay

\* a date compared with a timestamp is the timestamp of its midnight
DateToTimestamp(date) == date * TicksPerDay

undefined == [type |-> "undefined"]

null == [type |-> "null"]

DateString(d) == [type |-> "string", date |-> d]

\* the dates a request can name: the days of the clock and the day after
QueryDates == 0..NumDays

QueryParams == {undefined} \cup {DateString(d) : d \in QueryDates}

\* parseParam as a bug would have it: an absent parameter becomes a
\* default date
parseParamDefaultDate(param) ==
  IF param = undefined THEN DateString(0) ELSE param

\* line 115
parseParam(param) == IF param = undefined THEN null ELSE param

\* WHERE ($1::date IS NULL OR o.created_at >= $1)
\*   AND ($2::date IS NULL OR o.created_at <= $2)
InRange(o, p1, p2) ==
  /\ p1 = null \/ o.created_at >= DateToTimestamp(p1.date)
  /\ p2 = null \/ o.created_at <= DateToTimestamp(p2.date)

RECURSIVE SumOf(_, _)
\* the sum of f[x] over x in S
SumOf(f, S) ==
  IF S = {} THEN 0
  ELSE LET x == CHOOSE y \in S : TRUE IN f[x] + SumOf(f, S \ {x})

\* SELECT oi.item_name, SUM(oi.total) ... JOIN ... GROUP BY oi.item_name
\* over the orders os; the ORDER BY arranges the rows, it does not change them
SalesByItemRows(os, ois) ==
  LET joined == {oi \in BagToSet(ois) : \E o \in os : o.id = oi.order_id}
      sales  == [oi \in joined |-> oi.total * ois[oi]]
  IN {[item_name |-> n,
       total_sales |-> SumOf(sales, {oi \in joined : oi.item_name = n})] :
        n \in {oi.item_name : oi \in joined}}

\* SELECT DATE(o.created_at), SUM(o.total_amount) ... GROUP BY date
DailySalesRows(os) ==
  LET amount == [o \in os |-> o.total_amount]
  IN {[date |-> d,
       total_sales |-> SumOf(amount, {o \in os : DayOf(o.created_at) = d})] :
        d \in {DayOf(o.created_at) : o \in os}}

\* SELECT o.payment_status, COUNT(*), SUM(o.total_amount) ... GROUP BY
PaymentStatusRows(os) ==
  LET amount == [o \in os |-> o.total_amount]
  IN {[payment_status |-> st,
       count_orders |-> Cardinality({o \in os : o.payment_status = st}),
       total_amount |-> SumOf(amount, {o \in os : o.payment_status = st})] :
        st \in {o.payment_status : o \in os}}

Endpoints == {"sales-by-item", "daily-sales", "payment-status-distribution"}

Aggregate(endpoint, os, ois) ==
  IF endpoint = "sales-by-item" THEN SalesByItemRows(os, ois)
  ELSE IF endpoint = "daily-sales" THEN DailySalesRows(os)
  ELSE PaymentStatusRows(os)

\* db.query(query, [parseParam(startDate), parseParam(endDate)])
QueryRows(endpoint, os, ois, startDate, endDate) ==
  Aggregate(endpoint,
            {o \in os : InRange(o, parseParam(startDate), parseParam(endDate))},
            ois)

\* the orders the dashboard specification stores:
\* payment_status, item_name, amount in hundredths
OrderKinds == {<<"Paid", "tea", 100>>, <<"Pending", "cake", 250>>}

InitDash == HandlerInit /\ StoreInit /\ PureIdle /\ DashIdle

Quiet == dash.endpoint = "none"

\* time passes
Tick ==
  /\ Quiet
  /\ clock < LastInstant
  /\ clock' = clock + 1
  /\ UNCHANGED <<dash, orders, order_items, handlerVars, pureVars>>

\* an order of one item is recorded: created_at is NOW() (lines 60-92)
PlaceOrder ==
  /\ Quiet
  /\ Cardinality(orders) < MaxOrders
  /\ \E kind \in OrderKinds :
       LET id == Cardinality(orders) + 1 IN
       /\ orders' = orders \cup
            {[id |-> id, created_at |-> clock, payment_status |-> kind[1],
              total_amount |-> kind[3]]}
       /\ order_items' = order_items (+)
            SetToBag({[order_id |-> id, item_name |-> kind[2],
                       total |-> kind[3]]})
  /\ UNCHANGED <<clock, dash, handlerVars, pureVars>>

\* lines 117-137, 139-158, 160-179: the handler's query runs, dash is
\* the response the handler goes on to send: the rows, or status 500 when
\* the store fails
Dashboard(endpoint, startDate, endDate) ==
  /\ Quiet
  /\ \/ dash' = [endpoint |-> endpoint, startDate |-> startDate,
                 endDate |-> endDate, status |-> 200,
                 rows |-> QueryRows(endpoint, orders, order_items,
                                    startDate, endDate)]
     \/ dash' = [endpoint |-> endpoint, status |-> 500,
                 error |-> "Internal server error"]
  /\ UNCHANGED <<clock, orders, order_items, handlerVars, pureVars>>

\* res.json(rows) or res.status(500).json(...): the response is sent
Respond ==
  /\ ~Quiet
  /\ dash' = [endpoint |-> "none"]
  /\ UNCHANGED <<clock, orders, order_items, handlerVars, pureVars>>

SalesByItem == \E s, e \in QueryParams : Dashboard("sales-by-item", s, e)

DailySales == \E s, e \in QueryParams : Dashboard("daily-sales", s, e)

PaymentStatusDistribution ==
  \E s, e \in QueryParams : Dashboard("payment-status-distribution", s, e)

NextDash ==
  \/ Tick
  \/ PlaceOrder
  \/ SalesByItem
  \/ DailySales
  \/ PaymentStatusDistribution
  \/ Respond

SpecDash == InitDash /\ [][NextDash]_vars

Answered == dash.endpoint \in Endpoints /\ dash.status = 200

\* the dates s, e bound every stored order
Covers(s, e) ==
  \A o \in orders :
    DateToTimestamp(s) <= o.created_at /\ o.created_at <= DateToTimestamp(e)

C9_InclusiveDates ==
  Answered =>
    dash.rows =
      Aggregate(dash.endpoint,
                {o \in orders :
                   /\ dash.startDate = undefined
                        \/ DayOf(o.created_at) >= dash.startDate.date
                   /\ dash.endDate = undefined
                        \/ DayOf(o.created_at) <= dash.endDate.date},
                order_items)

=============================================================================
